---- MODULE Spec2Model ----
(***************************************************************************)
(* The data-preparation script of src/main.py (a Streamlit dashboard over  *)
(* the CNC "millionaire movies" workbook) as a state machine: one step per *)
(* top-level statement of the script, the workbook being the input.        *)
(*                                                                         *)
(* Text cells (nationality, release date) are sequences of one-character   *)
(* strings, so that split, strip, upper, join and the date format are      *)
(* computed character by character.  Column names are written in ASCII     *)
(* ("nationalite" for the accented header, "entrees" likewise).            *)
(***************************************************************************)
EXTENDS Integers, Sequences, FiniteSets, TLC

(* ------------------------------ bounds -------------------------------- *)

\* largest number of rows in the data sheets of an enumerated workbook
MaxRows == 3

\* admissions of an enumerated row range over 1..MaxAdm (units of 1.0 million)
MaxAdm == 2

\* largest number of '/'-separated components of an enumerated nationality
MaxComponents == 3

(* --------------------------- text primitives -------------------------- *)

\* a missing text cell (pandas NaN in an object column)
NaN == <<"NaN">>

\* a missing cell of the title or rank column
NaNCell == "NaN"

\* a missing timestamp (pandas NaT)
NaT == [year |-> 0, month |-> 0, day |-> 0]

LowerCase == <<"a", "b", "c", "d", "e", "f", "g", "h", "i", "j", "k", "l", "m", "n", "o", "p", "q", "r", "s", "t", "u", "v", "w", "x", "y", "z">>

UpperCase == <<"A", "B", "C", "D", "E", "F", "G", "H", "I", "J", "K", "L", "M", "N", "O", "P", "Q", "R", "S", "T", "U", "V", "W", "X", "Y", "Z">>

Digits == <<"0", "1", "2", "3", "4", "5", "6", "7", "8", "9">>

Whitespace == {" "}

\* str.upper() on one character
UpperChar(c) ==
    IF \E i \in DOMAIN LowerCase : LowerCase[i] = c
    THEN UpperCase[CHOOSE i \in DOMAIN LowerCase : LowerCase[i] = c]
    ELSE c

\* Series.str.upper() on one cell: a missing cell stays missing
str_upper(value) ==
    IF value = NaN THEN NaN ELSE [i \in DOMAIN value |-> UpperChar(value[i])]

\* str.split(sep) for a one-character separator: always at least one part
RECURSIVE split(_, _)
split(s, sep) ==
    IF \E i \in DOMAIN s : s[i] = sep
    THEN LET i == CHOOSE k \in DOMAIN s : s[k] = sep /\ \A j \in 1..(k - 1) : s[j] # sep
         IN  <<SubSeq(s, 1, i - 1)>> \o split(SubSeq(s, i + 1, Len(s)), sep)
    ELSE <<s>>

\* str.strip(): drops leading and trailing whitespace
strip(s) ==
    LET keep == {i \in DOMAIN s : s[i] \notin Whitespace}
    IN  IF keep = {} THEN <<>>
        ELSE LET lo == CHOOSE i \in keep : \A j \in keep : i <= j
                 hi == CHOOSE i \in keep : \A j \in keep : j <= i
             IN  SubSeq(s, lo, hi)

\* sep.join(parts)
RECURSIVE join(_, _)
join(sep, parts) ==
    IF parts = <<>> THEN <<>>
    ELSE IF Len(parts) = 1 THEN parts[1]
    ELSE parts[1] \o sep \o join(sep, Tail(parts))

(* ------------------------ nationality encoding ------------------------ *)

nationality_mapping ==
    (<<"E", "T", "A", "T", "S", " ", "U", "N", "I", "S">> :> <<"U", "S">>)
    @@ (<<"U", "S", "A">> :> <<"U", "S">>)
    @@ (<<"U", "S">> :> <<"U", "S">>)
    @@ (<<"G", "R", "A", "N", "D", "E", " ", "B", "R", "E", "T", "A", "G", "N", "E">> :> <<"G", "B">>)
    @@ (<<"G", "B">> :> <<"G", "B">>)
    @@ (<<"F", "R", "A", "N", "C", "E">> :> <<"F", "R">>)
    @@ (<<"F", "R">> :> <<"F", "R">>)
    @@ (<<"C", "A", "N", "A", "D", "A">> :> <<"C", "A">>)
    @@ (<<"C", "A">> :> <<"C", "A">>)
    @@ (<<"A", "U", "S", "T", "R", "A", "L", "I", "E">> :> <<"A", "U">>)
    @@ (<<"A", "U">> :> <<"A", "U">>)
    @@ (<<"C", "O", "R", "E", "E", " ", "D", "U", " ", "S", "U", "D">> :> <<"K", "S">>)
    @@ (<<"K", "S">> :> <<"K", "S">>)
    @@ (<<"I", "T", "A", "L", "I", "E">> :> <<"I", "T">>)
    @@ (<<"I", "T">> :> <<"I", "T">>)
    @@ (<<"M", "A", "R", "O", "C">> :> <<"M", "A">>)
    @@ (<<"N", "O", "U", "V", "E", "L", "L", "E", " ", "Z", "E", "L", "A", "N", "D", "E">> :> <<"N", "Z">>)
    @@ (<<"A", "L", "L", "E", "M", "A", "G", "N", "E">> :> <<"D", "E">>)
    @@ (<<"D", "E">> :> <<"D", "E">>)
    @@ (<<"B", "E", "L", "G", "I", "Q", "U", "E">> :> <<"B", "E">>)
    @@ (<<"B", "E">> :> <<"B", "E">>)
    @@ (<<"L", "U", "X", "E", "M", "B", "O", "U", "R", "G">> :> <<"L", "U", "X">>)
    @@ (<<"L", "U", "X">> :> <<"L", "U", "X">>)
    @@ (<<"R", "E", "P", "U", "B", "L", "I", "Q", "U", "E", " ", "T", "C", "H", "E", "Q", "U", "E">> :> <<"C", "Z">>)
    @@ (<<"H", "O", "N", "G", "R", "I", "E">> :> <<"H", "U">>)
    @@ (<<"E", "S", "P", "A", "G", "N", "E">> :> <<"E", "S">>)
    @@ (<<"R", "O", "U", "M", "A", "N", "I", "E">> :> <<"R", "O">>)
    @@ (<<"S", "U", "E", "D", "E">> :> <<"S", "E">>)
    @@ (<<"S", "U", "I", "S", "S", "E">> :> <<"C", "H">>)
    @@ (<<"P", "A", "Y", "S", "-", "B", "A", "S">> :> <<"N", "L">>)

\* variant: every lookup misses
mapping_get_miss(key, default) == default

\* dict.get(key, default)
mapping_get(key, default) ==
    IF key \in DOMAIN nationality_mapping THEN nationality_mapping[key] ELSE default

\* variant: only the first two components are encoded
encode_two_countries(value) ==
    LET countries == split(value, "/")
        mapped == [i \in DOMAIN countries |-> mapping_get(strip(countries[i]), countries[i])]
    IN  join(<<" ", "/", " ">>, [j \in DOMAIN mapped \cap 1..2 |-> mapped[j]])

encode_nationality(value) ==
    LET countries == split(value, "/")
        mapped == [i \in DOMAIN countries |-> mapping_get(strip(countries[i]), countries[i])]
    IN  join(<<" ", "/", " ">>, mapped)

(* ---------------------------- date parsing ---------------------------- *)

IsDigit(c) == \E i \in DOMAIN Digits : Digits[i] = c

DigitVal(c) == (CHOOSE i \in DOMAIN Digits : Digits[i] = c) - 1

RECURSIVE NumVal(_)
NumVal(s) == IF s = <<>> THEN 0 ELSE 10 * NumVal(SubSeq(s, 1, Len(s) - 1)) + DigitVal(s[Len(s)])

AllDigits(s) == \A i \in DOMAIN s : IsDigit(s[i])

\* the directive %d : 3[0-1] | [1-2]\d | 0[1-9] | [1-9] | " "[1-9]
MatchesDay(s) ==
    \/ Len(s) \in {1, 2} /\ AllDigits(s) /\ NumVal(s) \in 1..31
    \/ Len(s) = 2 /\ s[1] = " " /\ IsDigit(s[2]) /\ s[2] # "0"

\* the directive %m : 1[0-2] | 0[1-9] | [1-9]
MatchesMonth(s) == Len(s) \in {1, 2} /\ AllDigits(s) /\ NumVal(s) \in 1..12

\* the directive %Y : \d\d\d\d
MatchesYear(s) == Len(s) = 4 /\ AllDigits(s)

IsLeap(y) == (y % 4 = 0 /\ y % 100 # 0) \/ y % 400 = 0

DaysInMonth(m, y) ==
    IF m = 2 THEN (IF IsLeap(y) THEN 29 ELSE 28)
    ELSE IF m \in {4, 6, 9, 11} THEN 30 ELSE 31

\* does a text match "%d/%m/%Y" exactly and name a calendar day
date_matches(text) ==
    LET parts == split(text, "/")
    IN  /\ Len(parts) = 3
        /\ MatchesDay(parts[1])
        /\ MatchesMonth(parts[2])
        /\ MatchesYear(parts[3])
        /\ NumVal(strip(parts[1])) <= DaysInMonth(NumVal(parts[2]), NumVal(parts[3]))
        /\ NumVal(parts[3]) >= 1

\* the texts the conversion reads as a missing timestamp before it tries
\* the format
nat_strings ==
    {<<"N", "a", "T">>, <<"n", "a", "t">>, <<"N", "A", "T">>,
     <<"n", "a", "n">>, <<"N", "a", "N">>, <<"N", "A", "N">>}

\* pd.to_datetime(cell, format="%d/%m/%Y") on a cell that does not raise
\* (a cell that is not converted has no timestamp)
to_datetime(text) ==
    IF text = NaN \/ text \in nat_strings \/ ~date_matches(text) THEN NaT
    ELSE LET parts == split(text, "/")
         IN  [year |-> NumVal(parts[3]), month |-> NumVal(parts[2]), day |-> NumVal(strip(parts[1]))]

\* variant: errors="coerce", no cell raises
to_datetime_coerce(text) == FALSE

\* the cells on which pd.to_datetime raises ValueError
to_datetime_raises(text) == text # NaN /\ text \notin nat_strings /\ ~date_matches(text)

(* ------------------------------- tables ------------------------------- *)

\* A sheet is [name, columns, rows]; a row is a record over the sheet's
\* columns plus "sheet", the name of the sheet it was read from (kept for
\* bookkeeping only, it is not a column).

\* the titles of the enumerated rows, in ascending (code point) order
Titles == <<"Movie A", "Movie B">>

TitleRank(t) == CHOOSE i \in DOMAIN Titles : Titles[i] = t

Range(s) == {s[i] : i \in DOMAIN s}

\* DataFrame.rename(columns={old: new}) on the rows of a table
rename_rows(rows, old, new) ==
    [i \in DOMAIN rows |->
        IF old \in DOMAIN rows[i]
        THEN [c \in ((DOMAIN rows[i]) \ {old}) \cup {new} |->
                 IF c = new THEN rows[i][old] ELSE rows[i][c]]
        ELSE rows[i]]

\* variant: the ranking column is not renamed
rename_rang_skipped(sh) == sh

\* lines 19-21 on one sheet: the test is on the placeholder name, the
\* rename is of the column at position 0
rename_rang(sh) ==
    IF "Unnamed: 0" \in Range(sh.columns)
    THEN [sh EXCEPT !.columns = [i \in DOMAIN sh.columns |-> IF i = 1 THEN "rang" ELSE sh.columns[i]],
                    !.rows = rename_rows(sh.rows, sh.columns[1], "rang")]
    ELSE sh

\* variant: pop with a default, a missing key is not an error
HasSheet_or_default(dict, name) == TRUE

HasSheet(dict, name) == \E i \in DOMAIN dict : dict[i].name = name

\* dict.pop(name) on a dictionary that has the key
pop(dict, name) == SelectSeq(dict, LAMBDA sh : sh.name # name)

RECURSIVE Flatten(_)
Flatten(ss) == IF ss = <<>> THEN <<>> ELSE ss[1] \o Flatten(Tail(ss))

AllColumns(dict) == UNION {Range(dict[i].columns) : i \in DOMAIN dict}

MissingCell(col) == IF col \in {"nationalite", "sortie"} THEN NaN ELSE NaNCell

\* pd.concat(df_dict.values(), ignore_index=True): the rows of the sheets
\* in dictionary order, over the union of the columns
concat(dict) ==
    LET cols == AllColumns(dict) \cup {"sheet"}
        widen(r) == [c \in cols |-> IF c \in DOMAIN r THEN r[c] ELSE MissingCell(c)]
        all == Flatten([i \in DOMAIN dict |-> dict[i].rows])
    IN  [i \in DOMAIN all |-> widen(all[i])]

(* ---------------------- grouping and sorting -------------------------- *)

\* variant: the admissions are aggregated with "first"
SumSeq_first(s) == IF s = <<>> THEN 0 ELSE s[1]

RECURSIVE SumSeq(_)
SumSeq(s) == IF s = <<>> THEN 0 ELSE s[1] + SumSeq(Tail(s))

\* variant: the descriptive fields are aggregated with "last"
last_valid(cells, missing) ==
    LET ok == SelectSeq(cells, LAMBDA c : c # missing)
    IN  IF ok = <<>> THEN missing ELSE ok[Len(ok)]

\* GroupBy "first": the first value of the group that is not missing
first_valid(cells, missing) ==
    LET ok == SelectSeq(cells, LAMBDA c : c # missing)
    IN  IF ok = <<>> THEN missing ELSE ok[1]

Column(rows, col) == [i \in DOMAIN rows |-> rows[i][col]]

\* variant: one group per row, the rows are not merged
GroupKeys_per_row(rows) ==
    LET titled == SelectSeq(rows, LAMBDA r : r.titre # NaNCell)
    IN  [i \in DOMAIN titled |-> titled[i].titre]

\* the group keys: groupby drops a missing key and sorts the others
GroupKeys(rows) ==
    LET present == {rows[i].titre : i \in DOMAIN rows} \ {NaNCell}
    IN  SelectSeq(Titles, LAMBDA t : t \in present)

\* groupby("titre").agg({"entrees": "sum", "nationalite": "first", "sortie": "first"})
groupby_agg(rows) ==
    LET keys == GroupKeys(rows)
        grp(t) == SelectSeq(rows, LAMBDA r : r.titre = t)
    IN  [k \in DOMAIN keys |->
            [titre |-> keys[k],
             entrees |-> SumSeq(Column(grp(keys[k]), "entrees")),
             nationalite |-> first_valid(Column(grp(keys[k]), "nationalite"), NaN),
             sortie |-> first_valid(Column(grp(keys[k]), "sortie"), NaT)]]

IsDescending(rows) ==
    \A i, j \in DOMAIN rows : i < j => rows[i].entrees >= rows[j].entrees

Orderings(n) == {f \in [1..n -> 1..n] : \A i, j \in 1..n : f[i] = f[j] => i = j}

\* variant: ascending order
sort_values_ascending(rows) ==
    {t \in {[i \in DOMAIN rows |-> rows[f[i]]] : f \in Orderings(Len(rows))} :
        \A i, j \in DOMAIN t : i < j => t[i].entrees <= t[j].entrees}

\* sort_values(by="entrees", ascending=False) with the default kind
\* ("quicksort", not a stable sort): every descending arrangement of the
\* rows is a possible result
sort_values(rows) ==
    {t \in {[i \in DOMAIN rows |-> rows[f[i]]] : f \in Orderings(Len(rows))} : IsDescending(t)}

\* variant: the upper end of the range is excluded
between_half_open(rows, lo, hi) ==
    SelectSeq(rows, LAMBDA r : r.sortie # NaT /\ lo <= r.sortie.year /\ r.sortie.year < hi)

\* df[df["sortie"].dt.year.between(lo, hi)]: a missing date has no year
between(rows, lo, hi) ==
    SelectSeq(rows, LAMBDA r : r.sortie # NaT /\ lo <= r.sortie.year /\ r.sortie.year <= hi)

(* ------------------------------- state -------------------------------- *)

VARIABLES
    pc,           \* the statement of the script to run next
    workbook,     \* the workbook behind the catalog's download URL (input)
    df_dict,      \* sheet name -> sheet, in workbook order
    df,           \* the script's variable df
    df_original,  \* the copy taken at line 89
    df_2000s,
    df_2010s,
    df_2020s,
    now,          \* the calendar year read by pd.to_datetime("now") at line 120
    page,         \* the sidebar selection
    screen        \* the tables written to the page, in order

vars == <<pc, workbook, df_dict, df, df_original, df_2000s, df_2010s, df_2020s, now, page, screen>>

(* ------------------------------ inputs -------------------------------- *)

\* the calendar years pd.to_datetime("now") may fall in
NowYears == {2023, 2026}

Pages == {"HOME", "ALL TIME", "2000s", "2010s", "2020s"}

DataColumns(first) == <<first, "titre", "entrees (millions)", "nationalite", "sortie">>

\* one row of a data sheet; cells = <<title, admissions, nationality, date>>
DataRow(name, first, rang, cells) ==
    (first :> rang) @@ ("entrees (millions)" :> cells[2])
    @@ [sheet |-> name, titre |-> cells[1], nationalite |-> cells[3], sortie |-> cells[4]]

\* a yearly sheet whose first header cell reads `first`
DataSheet(name, first, cellrows) ==
    [name |-> name,
     columns |-> DataColumns(first),
     rows |-> [i \in DOMAIN cellrows |-> DataRow(name, first, Digits[i + 1], cellrows[i])]]

\* the two sheets that hold no movie rows
OtherSheet(name, cell) ==
    [name |-> name,
     columns |-> <<"Unnamed: 0">>,
     rows |-> <<("Unnamed: 0" :> cell) @@ [sheet |-> name]>>]

Book(hasSommaire, hasEsri, sheets) ==
    (IF hasSommaire THEN <<OtherSheet("Sommaire", "toc")>> ELSE <<>>)
    \o sheets
    \o (IF hasEsri THEN <<OtherSheet("ESRI_MAPINFO_SHEET", "geo")>> ELSE <<>>)

SeqsUpTo(S, n) == UNION {[1..k -> S] : k \in 1..n}

D_15_12_2009 == <<"1", "5", "/", "1", "2", "/", "2", "0", "0", "9">>
D_10_01_2010 == <<"1", "0", "/", "0", "1", "/", "2", "0", "1", "0">>
ETATS_UNIS == <<"E", "T", "A", "T", "S", " ", "U", "N", "I", "S">>
FRANCE == <<"F", "R", "A", "N", "C", "E">>
PAYS_BAS == <<"P", "A", "Y", "S", "-", "B", "A", "S">>
RURITANIA == <<"R", "U", "R", "I", "T", "A", "N", "I", "A">>

\* titles listed once or several times, with any admissions
CellsAgg ==
    Range(Titles) \X (1..MaxAdm) \X {FRANCE} \X {D_15_12_2009}

BooksAgg ==
    {Book(TRUE, TRUE, <<DataSheet("2009", "rang", <<rs[1]>>),
                        DataSheet("2010", "Unnamed: 0", Tail(rs))>>) :
        rs \in SeqsUpTo(CellsAgg, MaxRows)}

\* year-boundary duplicates: a sheet of two rows that may differ in title,
\* admissions, nationality and date
CellsFirst ==
    Range(Titles) \X (1..MaxAdm) \X {ETATS_UNIS, FRANCE} \X {D_15_12_2009, D_10_01_2010}

BooksFirst ==
    {Book(TRUE, TRUE, <<DataSheet("2009", "rang", <<r1, r2>>)>>) :
        r1 \in CellsFirst, r2 \in CellsFirst}

\* the scenario of a film released in December 2009 and still running in
\* January 2010 (3.0 and 2.0 million admissions)
BooksScenario ==
    {Book(TRUE, TRUE, <<DataSheet("2009", "rang", <<<<"Movie A", 3, ETATS_UNIS, D_15_12_2009>>>>),
                        DataSheet("2010", "rang", <<<<"Movie A", 2, ETATS_UNIS, D_10_01_2010>>>>)>>)}

D_01_06_2010 == <<"0", "1", "/", "0", "6", "/", "2", "0", "1", "0">>

\* the end-to-end scenario: sheet 2009 lists Movie A, sheet 2010 lists
\* Movie A again and Movie B
EndToEndCells2009 == <<<<"Movie A", 8, ETATS_UNIS, D_15_12_2009>>>>

EndToEndCells2010 ==
    <<<<"Movie A", 2, <<"U", "S">>, D_10_01_2010>>, <<"Movie B", 5, FRANCE, D_01_06_2010>>>>

BooksEndToEnd ==
    {Book(TRUE, TRUE, <<DataSheet("2009", "rang", EndToEndCells2009),
                        DataSheet("2010", "rang", EndToEndCells2010)>>)}

\* two yearly sheets of two rows each, the first header cell of each sheet
\* either filled or blank
BooksOrder ==
    {Book(TRUE, TRUE, <<DataSheet("2009", h1, <<<<"Movie A", 1, FRANCE, D_15_12_2009>>,
                                                 <<"Movie B", 2, FRANCE, D_15_12_2009>>>>),
                        DataSheet("2010", h2, <<<<"Movie B", 1, ETATS_UNIS, D_10_01_2010>>,
                                                 <<"Movie A", 2, ETATS_UNIS, D_10_01_2010>>>>)>>) :
        h1 \in {"rang", "Unnamed: 0"}, h2 \in {"rang", "Unnamed: 0"}}

\* sheets with empty cells in the title, nationality or date column
CellsBlank ==
    {"Movie A", NaNCell} \X {1} \X {FRANCE, NaN} \X {D_15_12_2009, D_10_01_2010, NaN}

BooksBlank ==
    {Book(TRUE, TRUE, <<DataSheet("2009", "rang", <<r1>>),
                        DataSheet("2010", "rang", <<r2>>)>>) :
        r1 \in CellsBlank, r2 \in CellsBlank}

TwoDigits(n) == <<Digits[(n \div 10) + 1], Digits[(n % 10) + 1]>>

\* the text of a day as the source writes it: dd/mm/yyyy
DateText(d, m, y) ==
    TwoDigits(d) \o <<"/">> \o TwoDigits(m) \o <<"/">> \o TwoDigits(y \div 100) \o TwoDigits(y % 100)

\* the last day and the first day of the years around each range's ends
EdgeDates ==
    {DateText(31, 12, y) : y \in {1999, 2009, 2019} \cup NowYears}
    \cup {DateText(1, 1, y) : y \in {2000, 2010, 2020} \cup {n + 1 : n \in NowYears}}

BooksYears ==
    {Book(TRUE, TRUE, <<DataSheet("2009", "rang", <<<<"Movie A", 1, FRANCE, d1>>,
                                                      <<"Movie B", 2, FRANCE, d2>>>>)>>) :
        d1 \in EdgeDates, d2 \in EdgeDates}

\* date cells: two that match %d/%m/%Y and name a day, and five that do not
\* (ISO order, 31 February, month 13, two-digit year, the text NaT)
DateCells ==
    {D_15_12_2009,
     <<"5", "/", "1", "/", "2", "0", "0", "9">>,
     <<"2", "0", "0", "9", "-", "1", "2", "-", "1", "5">>,
     <<"3", "1", "/", "0", "2", "/", "2", "0", "0", "9">>,
     <<"1", "5", "/", "1", "3", "/", "2", "0", "0", "9">>,
     <<"1", "5", "/", "1", "2", "/", "0", "9">>,
     <<"N", "a", "T">>}

\* workbooks with or without the two sheets the script discards, with no
\* yearly sheet or with one, whose second row has any of the date cells
BooksSheets ==
    {Book(s, e, <<>>) : s \in BOOLEAN, e \in BOOLEAN}
    \cup {Book(s, e, <<DataSheet("2009", "Unnamed: 0", <<<<"Movie A", 1, FRANCE, D_10_01_2010>>,
                                                          <<"Movie B", 1, FRANCE, d>>>>)>>) :
              s \in BOOLEAN, e \in BOOLEAN, d \in DateCells}

\* the components of the enumerated nationality cells: names and codes of
\* the table, a code that is not a key, an unknown name, padded and
\* mixed-case text
Components ==
    {ETATS_UNIS, <<"F", "r", "a", "n", "c", "e">>, PAYS_BAS, <<"N", "L">>, <<"U", "S">>,
     <<" ", "F", "R", " ">>, RURITANIA}

BooksEnc ==
    {Book(TRUE, TRUE, <<DataSheet("2009", "rang",
                                  <<<<"Movie A", 1, join(<<"/">>, cs), D_15_12_2009>>>>)>>) :
        cs \in SeqsUpTo(Components, MaxComponents)}

Books ==
    BooksAgg \cup BooksFirst \cup BooksScenario \cup BooksEndToEnd \cup BooksOrder \cup BooksBlank
    \cup BooksYears \cup BooksSheets \cup BooksEnc

Init ==
    /\ pc = "fetch"
    /\ workbook \in Books
    /\ df_dict = <<>>
    /\ df = <<>>
    /\ df_original = <<>>
    /\ df_2000s = <<>>
    /\ df_2010s = <<>>
    /\ df_2020s = <<>>
    /\ now = 0
    /\ page = "none"
    /\ screen = <<>>

(* ------------------------------ script -------------------------------- *)

Goto(next) == pc' = next

\* lines 12-16: the catalog lookup and the workbook download succeed
Fetch ==
    /\ pc = "fetch"
    /\ df_dict' = workbook
    /\ Goto("rename_rang")
    /\ UNCHANGED <<workbook, df, df_original, df_2000s, df_2010s, df_2020s, now, page, screen>>

\* variant: the failure is caught and the script goes on to the pages
FetchRaises_caught ==
    /\ pc = "fetch"
    /\ Goto("render")
    /\ UNCHANGED <<workbook, df_dict, df, df_original, df_2000s, df_2010s, df_2020s, now, page, screen>>

\* lines 12-16: the request, the JSON decoding, the lookup of the URL field
\* or the download raises
FetchRaises ==
    /\ pc = "fetch"
    /\ Goto("failed")
    /\ UNCHANGED <<workbook, df_dict, df, df_original, df_2000s, df_2010s, df_2020s, now, page, screen>>

\* lines 19-21
RenameRang ==
    /\ pc = "rename_rang"
    /\ df_dict' = [i \in DOMAIN df_dict |-> rename_rang(df_dict[i])]
    /\ Goto("pop_sommaire")
    /\ UNCHANGED <<workbook, df, df_original, df_2000s, df_2010s, df_2020s, now, page, screen>>

\* line 24
PopSommaire ==
    /\ pc = "pop_sommaire"
    /\ HasSheet(df_dict, "Sommaire")
    /\ df_dict' = pop(df_dict, "Sommaire")
    /\ Goto("pop_esri")
    /\ UNCHANGED <<workbook, df, df_original, df_2000s, df_2010s, df_2020s, now, page, screen>>

\* line 24: KeyError
PopSommaireRaises ==
    /\ pc = "pop_sommaire"
    /\ ~HasSheet(df_dict, "Sommaire")
    /\ Goto("failed")
    /\ UNCHANGED <<workbook, df_dict, df, df_original, df_2000s, df_2010s, df_2020s, now, page, screen>>

\* line 25
PopEsri ==
    /\ pc = "pop_esri"
    /\ HasSheet(df_dict, "ESRI_MAPINFO_SHEET")
    /\ df_dict' = pop(df_dict, "ESRI_MAPINFO_SHEET")
    /\ Goto("concat")
    /\ UNCHANGED <<workbook, df, df_original, df_2000s, df_2010s, df_2020s, now, page, screen>>

\* line 25: KeyError
PopEsriRaises ==
    /\ pc = "pop_esri"
    /\ ~HasSheet(df_dict, "ESRI_MAPINFO_SHEET")
    /\ Goto("failed")
    /\ UNCHANGED <<workbook, df_dict, df, df_original, df_2000s, df_2010s, df_2020s, now, page, screen>>

\* line 26
Concat ==
    /\ pc = "concat"
    /\ df_dict # <<>>
    /\ df' = concat(df_dict)
    /\ Goto("to_datetime")
    /\ UNCHANGED <<workbook, df_dict, df_original, df_2000s, df_2010s, df_2020s, now, page, screen>>

\* line 26: pd.concat of no objects raises ValueError
ConcatRaises ==
    /\ pc = "concat"
    /\ df_dict = <<>>
    /\ Goto("failed")
    /\ UNCHANGED <<workbook, df_dict, df, df_original, df_2000s, df_2010s, df_2020s, now, page, screen>>

\* line 29
ToDatetime ==
    /\ pc = "to_datetime"
    /\ \A i \in DOMAIN df : ~to_datetime_raises(df[i].sortie)
    /\ df' = [i \in DOMAIN df |-> [df[i] EXCEPT !.sortie = to_datetime(@)]]
    /\ Goto("upper")
    /\ UNCHANGED <<workbook, df_dict, df_original, df_2000s, df_2010s, df_2020s, now, page, screen>>

\* line 29: errors="raise" is the default; one bad cell fails the call
ToDatetimeRaises ==
    /\ pc = "to_datetime"
    /\ \E i \in DOMAIN df : to_datetime_raises(df[i].sortie)
    /\ Goto("failed")
    /\ UNCHANGED <<workbook, df_dict, df, df_original, df_2000s, df_2010s, df_2020s, now, page, screen>>

\* line 33
Upper ==
    /\ pc = "upper"
    /\ df' = [i \in DOMAIN df |-> [df[i] EXCEPT !.nationalite = str_upper(@)]]
    /\ Goto("encode")
    /\ UNCHANGED <<workbook, df_dict, df_original, df_2000s, df_2010s, df_2020s, now, page, screen>>

\* line 83
Encode ==
    /\ pc = "encode"
    /\ \A i \in DOMAIN df : df[i].nationalite # NaN
    /\ df' = [i \in DOMAIN df |-> [df[i] EXCEPT !.nationalite = encode_nationality(@)]]
    /\ Goto("rename_entrees")
    /\ UNCHANGED <<workbook, df_dict, df_original, df_2000s, df_2010s, df_2020s, now, page, screen>>

\* line 83: a missing cell is a float, which has no split (AttributeError)
EncodeRaises ==
    /\ pc = "encode"
    /\ \E i \in DOMAIN df : df[i].nationalite = NaN
    /\ Goto("failed")
    /\ UNCHANGED <<workbook, df_dict, df, df_original, df_2000s, df_2010s, df_2020s, now, page, screen>>

\* line 86
RenameEntrees ==
    /\ pc = "rename_entrees"
    /\ df' = rename_rows(df, "entrees (millions)", "entrees")
    /\ Goto("copy")
    /\ UNCHANGED <<workbook, df_dict, df_original, df_2000s, df_2010s, df_2020s, now, page, screen>>

\* line 89
Copy ==
    /\ pc = "copy"
    /\ df_original' = df
    /\ Goto("groupby")
    /\ UNCHANGED <<workbook, df_dict, df, df_2000s, df_2010s, df_2020s, now, page, screen>>

\* lines 98-99: df is rebound to the aggregated table
GroupBy ==
    /\ pc = "groupby"
    /\ df' \in sort_values(groupby_agg(df))
    /\ Goto("df_2000s")
    /\ UNCHANGED <<workbook, df_dict, df_original, df_2000s, df_2010s, df_2020s, now, page, screen>>

\* variant: the 2000s table is derived from the rows copied at line 89
Decade2000s_from_original ==
    /\ pc = "df_2000s"
    /\ df_2000s' \in sort_values(groupby_agg(between(df_original, 2000, 2009)))
    /\ Goto("df_2010s")
    /\ UNCHANGED <<workbook, df_dict, df, df_original, df_2010s, df_2020s, now, page, screen>>

\* lines 110-112
Decade2000s ==
    /\ pc = "df_2000s"
    /\ df_2000s' \in sort_values(groupby_agg(between(df, 2000, 2009)))
    /\ Goto("df_2010s")
    /\ UNCHANGED <<workbook, df_dict, df, df_original, df_2010s, df_2020s, now, page, screen>>

\* variant: the 2010s range starts one year early
Decade2010s_from_2009 ==
    /\ pc = "df_2010s"
    /\ df_2010s' \in sort_values(groupby_agg(between(df, 2009, 2019)))
    /\ Goto("df_2020s")
    /\ UNCHANGED <<workbook, df_dict, df, df_original, df_2000s, df_2020s, now, page, screen>>

\* lines 115-117
Decade2010s ==
    /\ pc = "df_2010s"
    /\ df_2010s' \in sort_values(groupby_agg(between(df, 2010, 2019)))
    /\ Goto("df_2020s")
    /\ UNCHANGED <<workbook, df_dict, df, df_original, df_2000s, df_2020s, now, page, screen>>

\* lines 120-122
Decade2020s ==
    /\ pc = "df_2020s"
    /\ now' \in NowYears
    /\ df_2020s' \in sort_values(groupby_agg(between(df, 2020, now')))
    /\ Goto("render")
    /\ UNCHANGED <<workbook, df_dict, df, df_original, df_2000s, df_2010s, page, screen>>

\* the first table each page writes: lines 242, 266, 335, 457, 596
FirstTable(p) ==
    CASE p = "HOME" -> df
      [] p = "ALL TIME" -> df
      [] p = "2000s" -> df_2000s
      [] p = "2010s" -> df_2010s
      [] p = "2020s" -> df_2020s

\* lines 206-713: the sidebar selection and the body of the selected page
Render ==
    /\ pc = "render"
    /\ \E p \in Pages :
          /\ page' = p
          /\ screen' = <<FirstTable(p)>>
    /\ Goto("done")
    /\ UNCHANGED <<workbook, df_dict, df, df_original, df_2000s, df_2010s, df_2020s, now>>

Next ==
    \/ Fetch \/ FetchRaises
    \/ RenameRang
    \/ PopSommaire \/ PopSommaireRaises
    \/ PopEsri \/ PopEsriRaises
    \/ Concat \/ ConcatRaises
    \/ ToDatetime \/ ToDatetimeRaises
    \/ Upper
    \/ Encode \/ EncodeRaises
    \/ RenameEntrees
    \/ Copy
    \/ GroupBy
    \/ Decade2000s \/ Decade2010s \/ Decade2020s
    \/ Render

Spec == Init /\ [][Next]_vars

(* ------------------------- reading the state -------------------------- *)

\* the statements after which the aggregated table exists
Aggregated == pc \in {"df_2000s", "df_2010s", "df_2020s", "render", "done"}

\* the statements after which the three decade tables exist
Partitioned == pc \in {"render", "done"}

\* the normalized rows: df as it was when line 89 copied it
Normalized == df_original

TitlesOf(rows) == {rows[i].titre : i \in DOMAIN rows} \ {NaNCell}

Occurrences(rows, t) == {i \in DOMAIN rows : rows[i].titre = t}

\* the sum of the admissions of the rows numbered in idx
RECURSIVE Admissions(_, _)
Admissions(rows, idx) ==
    IF idx = {} THEN 0
    ELSE LET i == CHOOSE k \in idx : TRUE
         IN  rows[i].entrees + Admissions(rows, idx \ {i})

InRange(rows, t, lo, hi) ==
    {i \in Occurrences(rows, t) :
        rows[i].sortie # NaT /\ rows[i].sortie.year >= lo /\ rows[i].sortie.year <= hi}

First(idx) == CHOOSE i \in idx : \A j \in idx : i <= j

Dated(rows, t) == {i \in Occurrences(rows, t) : rows[i].sortie # NaT}

\* the three views with their ranges
Views ==
    <<[rows |-> df_2000s, lo |-> 2000, hi |-> 2009],
      [rows |-> df_2010s, lo |-> 2010, hi |-> 2019],
      [rows |-> df_2020s, lo |-> 2020, hi |-> now]>>

(* ------------------------------- claims ------------------------------- *)

\* C1 (as stated): every decade view shows, for each title with normalized
\* rows released in the view's range, the sum of the admissions of those
\* rows only, and shows no other admissions.
C1_DecadeFromNormalizedRows ==
    Partitioned =>
        \A v \in DOMAIN Views :
            LET V == Views[v]
            IN  /\ \A t \in TitlesOf(Normalized) :
                       InRange(Normalized, t, V.lo, V.hi) # {} => Occurrences(V.rows, t) # {}
                /\ \A i \in DOMAIN V.rows :
                       V.rows[i].entrees =
                           Admissions(Normalized, InRange(Normalized, V.rows[i].titre, V.lo, V.hi))

\* C1 (amended): a decade view shows exactly the titles whose first dated
\* normalized row is released in the view's range, each with the sum of the
\* admissions of all its normalized rows, whatever their year.
C1_DecadeFromCanonicalRows ==
    Partitioned =>
        \A v \in DOMAIN Views :
            LET V == Views[v]
            IN  /\ \A t \in TitlesOf(Normalized) :
                       Occurrences(V.rows, t) # {} <=>
                           /\ Dated(Normalized, t) # {}
                           /\ First(Dated(Normalized, t)) \in InRange(Normalized, t, V.lo, V.hi)
                /\ \A i \in DOMAIN V.rows :
                       V.rows[i].entrees =
                           Admissions(Normalized, Occurrences(Normalized, V.rows[i].titre))

\* the scenario: 3.0 on 2009-12-15 and 2.0 on 2010-01-10 give 5.0 all-time,
\* 5.0 in the 2000s view and no row in the 2010s view
C1_Witness ==
    /\ Partitioned
    /\ Len(Normalized) = 2
    /\ Normalized[1].titre = Normalized[2].titre
    /\ Normalized[1].entrees = 3 /\ Normalized[1].sortie = [year |-> 2009, month |-> 12, day |-> 15]
    /\ Normalized[2].entrees = 2 /\ Normalized[2].sortie = [year |-> 2010, month |-> 1, day |-> 10]
    /\ Len(df) = 1 /\ df[1].entrees = 5
    /\ Len(df_2000s) = 1 /\ df_2000s[1].entrees = 5
    /\ df_2010s = <<>>

\* C2: the aggregated row of a title has the sum of the admissions of all
\* the normalized rows of that title.
C2_AggregationSum ==
    Aggregated =>
        \A t \in TitlesOf(Normalized) :
            \E i \in DOMAIN df :
                /\ df[i].titre = t
                /\ df[i].entrees = Admissions(Normalized, Occurrences(Normalized, t))

\* a title listed three times, the larger admissions not first
C2_Witness ==
    /\ Aggregated
    /\ \E t \in TitlesOf(Normalized) :
          /\ Cardinality(Occurrences(Normalized, t)) = 3
          /\ Normalized[1].titre = t /\ Normalized[1].entrees = 1
          /\ \E i \in DOMAIN df : df[i].titre = t /\ df[i].entrees = 4

\* C3 (as stated): the aggregated row of a title listed more than once has
\* the release date and the nationality of the title's first normalized row.
C3_FirstSeenWins ==
    Aggregated =>
        \A t \in TitlesOf(Normalized) :
            Cardinality(Occurrences(Normalized, t)) > 1 =>
                \A i \in DOMAIN df :
                    df[i].titre = t =>
                        /\ df[i].sortie = Normalized[First(Occurrences(Normalized, t))].sortie
                        /\ df[i].nationalite = Normalized[First(Occurrences(Normalized, t))].nationalite

\* C3 (amended): the nationality is that of the title's first normalized
\* row; the release date is that of its first normalized row that has a
\* date, and is missing only when none has.
C3_FirstValidWins ==
    Aggregated =>
        \A t \in TitlesOf(Normalized) :
            Cardinality(Occurrences(Normalized, t)) > 1 =>
                \A i \in DOMAIN df :
                    df[i].titre = t =>
                        /\ df[i].nationalite = Normalized[First(Occurrences(Normalized, t))].nationalite
                        /\ IF Dated(Normalized, t) = {} THEN df[i].sortie = NaT
                           ELSE df[i].sortie = Normalized[First(Dated(Normalized, t))].sortie

\* a title listed twice, the later date and another nationality first
C3_Witness ==
    /\ Aggregated
    /\ Len(Normalized) >= 2
    /\ Normalized[1].titre = Normalized[2].titre
    /\ Normalized[1].sortie # NaT /\ Normalized[2].sortie # NaT
    /\ Normalized[1].sortie.year > Normalized[2].sortie.year
    /\ Normalized[1].nationalite # Normalized[2].nationalite
    /\ \E i \in DOMAIN df :
          /\ df[i].titre = Normalized[1].titre
          /\ df[i].sortie = Normalized[1].sortie
          /\ df[i].nationalite = Normalized[1].nationalite

\* C4: the aggregated table has one row for each title of the normalized
\* table and no other row.
C4_OneRowPerTitle ==
    Aggregated =>
        /\ \A i, j \in DOMAIN df : df[i].titre = df[j].titre => i = j
        /\ {df[i].titre : i \in DOMAIN df} = TitlesOf(Normalized)

\* two titles over three rows leave two rows
C4_Witness ==
    /\ Aggregated
    /\ Len(Normalized) = 3
    /\ Cardinality(TitlesOf(Normalized)) = 2
    /\ Len(df) = 2

NonIncreasing(rows) ==
    \A i \in 1..(Len(rows) - 1) : rows[i].entrees >= rows[i + 1].entrees

\* rows with equal admissions are in the order of the grouping step, which
\* is the ascending order of the titles
TiesInGroupOrder(rows) ==
    \A i \in 1..(Len(rows) - 1) :
        rows[i].entrees = rows[i + 1].entrees =>
            TitleRank(rows[i].titre) < TitleRank(rows[i + 1].titre)

\* C5 (as stated): the aggregated table and the decade tables are in
\* descending order of admissions, ties in the order of the grouping step.
C5_SortedAndStable ==
    /\ Aggregated => NonIncreasing(df) /\ TiesInGroupOrder(df)
    /\ Partitioned =>
          \A v \in DOMAIN Views : NonIncreasing(Views[v].rows) /\ TiesInGroupOrder(Views[v].rows)

\* C5 (amended): the aggregated table and the decade tables are in
\* descending order of admissions; the order of ties is not fixed.
C5_SortedDescending ==
    /\ Aggregated => NonIncreasing(df)
    /\ Partitioned => \A v \in DOMAIN Views : NonIncreasing(Views[v].rows)

\* the title that sorts first has the smaller total and comes second, in the
\* aggregated table and in a decade table
C5_Witness ==
    /\ Partitioned
    /\ Len(df) = 2 /\ df[1].entrees > df[2].entrees
    /\ TitleRank(df[1].titre) > TitleRank(df[2].titre)
    /\ \E v \in DOMAIN Views : Views[v].rows = df

\* the rows of the yearly sheets as the workbook holds them, in order
InputRows ==
    LET data == SelectSeq(workbook, LAMBDA sh : sh.name \notin {"Sommaire", "ESRI_MAPINFO_SHEET"})
    IN  Flatten([i \in DOMAIN data |-> data[i].rows])

\* the spellings of a missing date
MissingDateTexts ==
    {<<"N", "a", "T">>, <<"n", "a", "t">>, <<"N", "A", "T">>,
     <<"n", "a", "n">>, <<"N", "a", "N">>, <<"N", "A", "N">>}

SheetNames(book) == {book[i].name : i \in DOMAIN book}

\* the statements after which the rows are normalized and copied
Copied == pc \in {"groupby"} \/ Aggregated

\* C6: encoding a nationality that is already encoded leaves it unchanged.
C6_EncodingIdempotent ==
    Copied =>
        \A i \in DOMAIN Normalized :
            encode_nationality(Normalized[i].nationalite) = Normalized[i].nationalite

\* what one component becomes: the code of its trimmed uppercase text when
\* that is a key of the table, its uppercase text as it stands otherwise
Encoded(component) ==
    LET u == str_upper(component)
    IN  IF strip(u) \in DOMAIN nationality_mapping THEN nationality_mapping[strip(u)] ELSE u

\* the j-th of k parts of an encoded value, without the blanks of the " / "
\* separators around it
Unpadded(parts, j) ==
    LET k == Len(parts)
        lo == IF j > 1 THEN 2 ELSE 1
        hi == IF j < k THEN Len(parts[j]) - 1 ELSE Len(parts[j])
    IN  SubSeq(parts[j], lo, hi)

Padded(parts, j) ==
    /\ j > 1 => Len(parts[j]) >= 1 /\ parts[j][1] = " "
    /\ j < Len(parts) => Len(parts[j]) >= 1 /\ parts[j][Len(parts[j])] = " "
    /\ (j > 1 /\ j < Len(parts)) => Len(parts[j]) >= 2

\* C7: a nationality of k components is encoded as k components in the same
\* order joined by " / ", each replaced by its code when its trimmed
\* uppercase text is a key of the table and kept as it is otherwise; a run
\* whose sheets and dates are in order fails only on an empty nationality
\* cell, never on an unknown component.
C7_MultiComponentMapping ==
    /\ Copied =>
          \A i \in DOMAIN Normalized :
              LET ins == split(InputRows[i].nationalite, "/")
                  outs == split(Normalized[i].nationalite, "/")
              IN  /\ Len(outs) = Len(ins)
                  /\ \A j \in DOMAIN outs :
                         Padded(outs, j) /\ Unpadded(outs, j) = Encoded(ins[j])
    /\ (/\ pc = "failed"
        /\ df # <<>>
        /\ \A i \in DOMAIN InputRows :
               \/ InputRows[i].sortie \in MissingDateTexts \cup {NaN}
               \/ date_matches(InputRows[i].sortie))
          => \E i \in DOMAIN InputRows : InputRows[i].nationalite = NaN

\* three components, the second not in the table: "US / RURITANIA / FR"
C7_Witness ==
    /\ Copied
    /\ \E i \in DOMAIN Normalized :
          /\ InputRows[i].nationalite = ETATS_UNIS \o <<"/">> \o RURITANIA \o <<"/">> \o <<"F", "r", "a", "n", "c", "e">>
          /\ Normalized[i].nationalite =
                 <<"U", "S", " ", "/", " ">> \o RURITANIA \o <<" ", "/", " ", "F", "R">>

ShownIn(rows, t) == \E i \in DOMAIN rows : rows[i].titre = t

\* C8: a row of the table the views are filtered from is in the 2000s view
\* iff its release year is in 2000..2009, in the 2010s view iff it is in
\* 2010..2019, in the 2020s view iff it is in 2020..now; so a row released
\* before 2000 or after the current year, or without a date, is in no view.
C8_InclusiveRanges ==
    Partitioned =>
        \A i \in DOMAIN df :
            LET dated == df[i].sortie # NaT
                y == df[i].sortie.year
            IN  /\ ShownIn(df_2000s, df[i].titre) <=> (dated /\ y \in 2000..2009)
                /\ ShownIn(df_2010s, df[i].titre) <=> (dated /\ y \in 2010..2019)
                /\ ShownIn(df_2020s, df[i].titre) <=> (dated /\ y \in 2020..now)

\* 31/12/2019 is in the 2010s view and 01/01/2020 in the 2020s view
C8_Witness ==
    /\ Partitioned
    /\ \E i, j \in DOMAIN df :
          /\ df[i].sortie.year = 2019 /\ ShownIn(df_2010s, df[i].titre)
          /\ ~ShownIn(df_2020s, df[i].titre)
          /\ df[j].sortie.year = 2020 /\ ShownIn(df_2020s, df[j].titre)
          /\ ~ShownIn(df_2010s, df[j].titre)

\* the statements at which df holds the concatenated rows, one per sheet row
Concatenated == pc \in {"to_datetime", "upper", "encode", "rename_entrees", "copy", "groupby"}

\* C9: a workbook without "Sommaire" or without "ESRI_MAPINFO_SHEET" stops the
\* run before the concatenation; otherwise no row of these two sheets is in
\* the concatenated table.
C9_DiscardSheets ==
    /\ ~({"Sommaire", "ESRI_MAPINFO_SHEET"} \subseteq SheetNames(workbook)) =>
          /\ pc \in {"fetch", "rename_rang", "pop_sommaire", "pop_esri", "failed"}
          /\ df = <<>>
    /\ Concatenated =>
          \A i \in DOMAIN df : df[i].sheet \notin {"Sommaire", "ESRI_MAPINFO_SHEET"}
    /\ \A i \in DOMAIN df_original : df_original[i].sheet \notin {"Sommaire", "ESRI_MAPINFO_SHEET"}

\* the second pop has raised: "Sommaire" was there, "ESRI_MAPINFO_SHEET" was not
C9_Witness ==
    /\ pc = "failed"
    /\ "Sommaire" \in SheetNames(workbook)
    /\ "ESRI_MAPINFO_SHEET" \notin SheetNames(workbook)
    /\ "Sommaire" \notin SheetNames(df_dict)
    /\ df_dict # <<>>
    /\ df = <<>>

\* some row's release-date text does not match day/month/year
BadDateText ==
    \E i \in DOMAIN InputRows :
        InputRows[i].sortie # NaN /\ ~date_matches(InputRows[i].sortie)

\* some row's release-date text neither matches day/month/year nor spells
\* a missing date
UnreadableDateText ==
    \E i \in DOMAIN InputRows :
        /\ InputRows[i].sortie # NaN
        /\ InputRows[i].sortie \notin MissingDateTexts
        /\ ~date_matches(InputRows[i].sortie)

\* the run stops at the date conversion at the latest: no row gets a date,
\* and no aggregated table, decade table or page comes out of it
StopsAtDates ==
    /\ pc \in {"fetch", "rename_rang", "pop_sommaire", "pop_esri", "concat", "to_datetime", "failed"}
    /\ \A i \in DOMAIN df : df[i].sortie = InputRows[i].sortie
    /\ df_original = <<>> /\ df_2000s = <<>> /\ df_2010s = <<>> /\ df_2020s = <<>>
    /\ screen = <<>>

\* C10 (as stated): when the release-date text of a row does not match
\* day/month/year, the whole run fails; the row is neither skipped nor kept
\* with a missing date.
C10_StrictDates == BadDateText => StopsAtDates

\* C10 (amended): when the release-date text of a row neither matches
\* day/month/year nor spells a missing date (NaT, nat, NAT, nan, NaN, NAN),
\* the whole run fails; a row whose date cell is empty or spells a missing
\* date is kept, with a missing date.
C10_StrictDatesButMissing ==
    /\ UnreadableDateText => StopsAtDates
    /\ Copied =>
          /\ Len(Normalized) = Len(InputRows)
          /\ \A i \in DOMAIN Normalized :
                 InputRows[i].sortie \in MissingDateTexts \cup {NaN} <=> Normalized[i].sortie = NaT

\* the conversion has raised on a table whose first row has a good date
C10_Witness ==
    /\ pc = "failed"
    /\ UnreadableDateText
    /\ Len(df) = 2 /\ Len(InputRows) = 2
    /\ date_matches(InputRows[1].sortie)
    /\ df[1].sortie = InputRows[1].sortie

\* nothing has been rendered
NothingRendered == page = "none" /\ screen = <<>>

\* the workbook passes every stage: both discarded sheets are there, a
\* yearly sheet is left, every date cell converts, every nationality cell
\* is a text
PassesEveryStage ==
    /\ {"Sommaire", "ESRI_MAPINFO_SHEET"} \subseteq SheetNames(workbook)
    /\ SheetNames(workbook) # {"Sommaire", "ESRI_MAPINFO_SHEET"}
    /\ ~UnreadableDateText
    /\ \A i \in DOMAIN InputRows : InputRows[i].nationalite # NaN

\* the results of the stages are in place
StagesCompleted ==
    /\ df_dict # <<>>
    /\ SheetNames(df_dict) = SheetNames(workbook) \ {"Sommaire", "ESRI_MAPINFO_SHEET"}
    /\ Len(df_original) = Len(InputRows)
    /\ \A i \in DOMAIN df : ShownIn(df_original, df[i].titre)
    /\ now \in NowYears

\* C11: the pages are rendered only after fetch, load, normalization,
\* aggregation and partitioning have all succeeded; a failure at any stage
\* ends the run for good, with nothing rendered and no second attempt.
C11_NoPartialResults ==
    /\ [](/\ ~NothingRendered => pc = "done"
          /\ pc \in {"render", "done"} => PassesEveryStage /\ StagesCompleted
          /\ pc = "failed" => NothingRendered)
    /\ [][/\ pc = "failed" => pc' = "failed"
          /\ pc' = "fetch" => pc = "fetch"
          /\ pc = "fetch" => pc' \in {"fetch", "rename_rang", "failed"}]_vars

\* the run has failed after the concatenation and nothing is rendered
C11_Witness ==
    /\ pc = "failed"
    /\ df # <<>>
    /\ df_original = <<>>
    /\ NothingRendered

\* C12: with sheet 2009 = [(Movie A, 8.0, ETATS UNIS, 15/12/2009)] and sheet
\* 2010 = [(Movie A, 2.0, US, 10/01/2010), (Movie B, 5.0, FRANCE, 01/06/2010)]
\* the aggregated table is Movie A (10.0, 2009-12-15, US) then
\* Movie B (5.0, 2010-06-01, FR): every row is normalized before the grouping.
C12_EndToEnd ==
    /\ (Aggregated /\ workbook \in BooksEndToEnd) =>
          df = <<[titre |-> "Movie A", entrees |-> 10, nationalite |-> <<"U", "S">>,
                  sortie |-> [year |-> 2009, month |-> 12, day |-> 15]],
                 [titre |-> "Movie B", entrees |-> 5, nationalite |-> <<"F", "R">>,
                  sortie |-> [year |-> 2010, month |-> 6, day |-> 1]]>>
    /\ Aggregated =>
          \A i \in DOMAIN df :
              \E j \in Occurrences(Normalized, df[i].titre) :
                  LET ins == split(InputRows[j].nationalite, "/")
                  IN  df[i].nationalite =
                          join(<<" ", "/", " ">>, [k \in DOMAIN ins |-> Encoded(ins[k])])

\* the scenario has been aggregated: three rows in, two rows out
C12_Witness ==
    /\ Aggregated
    /\ workbook \in BooksEndToEnd
    /\ Len(Normalized) = 3
    /\ Len(df) = 2 /\ df[1].titre = "Movie A" /\ df[1].entrees = 10

\* the position of a sheet in the workbook
SheetPos(name) == CHOOSE k \in DOMAIN workbook : workbook[k].name = name

\* the cell of a sheet row under the sheet's first header, named or blank
FirstCell(r) == IF "rang" \in DOMAIN r THEN r["rang"] ELSE r["Unnamed: 0"]

\* the position of a row in its sheet
RowPos(name, first) ==
    CHOOSE k \in DOMAIN workbook[SheetPos(name)].rows :
        FirstCell(workbook[SheetPos(name)].rows[k]) = first

\* C13: the concatenated table holds the rows of the yearly sheets, sheet
\* after sheet in workbook order and in sheet order within a sheet; the
\* first column of every sheet, blank header or not, ends up as the rank
\* column, so all rows have the same columns and none has a missing rank.
C13_ConcatInOrder ==
    Concatenated =>
        /\ Len(df) = Len(InputRows)
        /\ \A i \in DOMAIN df :
               /\ df[i].sheet = InputRows[i].sheet
               /\ df[i].titre = InputRows[i].titre
               /\ "rang" \in DOMAIN df[i] /\ "Unnamed: 0" \notin DOMAIN df[i]
               /\ df[i].rang = FirstCell(InputRows[i])
               /\ df[i].rang # NaNCell
               /\ DOMAIN df[i] = DOMAIN df[1]
        /\ \A i, j \in DOMAIN df :
               i < j =>
                   \/ SheetPos(df[i].sheet) < SheetPos(df[j].sheet)
                   \/ /\ df[i].sheet = df[j].sheet
                      /\ RowPos(df[i].sheet, df[i].rang) < RowPos(df[j].sheet, df[j].rang)

\* two sheets of two rows, the second with a blank first header: its rows
\* come third and fourth, with their ranks in the rank column
C13_Witness ==
    /\ pc = "to_datetime"
    /\ Len(df) = 4
    /\ "Unnamed: 0" \in Range(workbook[SheetPos("2010")].columns)
    /\ "rang" \in Range(workbook[SheetPos("2009")].columns)
    /\ df[2].sheet = "2009" /\ df[2].rang = "2"
    /\ df[3].sheet = "2010" /\ df[3].rang = "1"
    /\ df[4].sheet = "2010" /\ df[4].rang = "2"

\* C14: the table of the HOME page is the copy taken at line 89, with one
\* row per sheet row, year-boundary duplicates included.
C14_HomeShowsOriginal ==
    (pc = "done" /\ page = "HOME") =>
        \A t \in TitlesOf(df_original) :
            Cardinality(Occurrences(screen[1], t)) = Cardinality(Occurrences(df_original, t))

\* the aggregated rows released in the years lo..hi
CanonicalIn(lo, hi) ==
    {df[i] : i \in {k \in DOMAIN df : df[k].sortie # NaT /\ df[k].sortie.year \in lo..hi}}

\* a table made of exactly the given rows, each once
HoldsExactly(rows, S) == Range(rows) = S /\ Len(rows) = Cardinality(S)

\* C15: the three decade tables share no title; each holds exactly the
\* aggregated rows whose release year is in its range, unchanged; so every
\* aggregated title released in 2000..now is in exactly one of them and
\* their row counts add up to the number of such aggregated rows.
C15_DecadesPartitionCanonical ==
    Partitioned =>
        /\ HoldsExactly(df_2000s, CanonicalIn(2000, 2009))
        /\ HoldsExactly(df_2010s, CanonicalIn(2010, 2019))
        /\ HoldsExactly(df_2020s, CanonicalIn(2020, now))
        /\ \A t \in Range(Titles) :
               /\ ~(ShownIn(df_2000s, t) /\ ShownIn(df_2010s, t))
               /\ ~(ShownIn(df_2000s, t) /\ ShownIn(df_2020s, t))
               /\ ~(ShownIn(df_2010s, t) /\ ShownIn(df_2020s, t))
        /\ \A i \in DOMAIN df :
               (df[i].sortie # NaT /\ df[i].sortie.year \in 2000..now) =>
                   Cardinality({v \in DOMAIN Views : ShownIn(Views[v].rows, df[i].titre)}) = 1
        /\ Len(df_2000s) + Len(df_2010s) + Len(df_2020s) = Cardinality(CanonicalIn(2000, now))

\* two aggregated rows, one of a title listed twice across the year
\* boundary: one row in the 2000s table, the other in the 2010s table
C15_Witness ==
    /\ Partitioned
    /\ Len(Normalized) = 3
    /\ Len(df) = 2
    /\ \E i, j \in DOMAIN df :
          /\ df_2000s = <<df[i]>> /\ df[i].sortie.year = 2009
          /\ df_2010s = <<df[j]>> /\ df[j].sortie.year = 2010
          /\ Cardinality(Occurrences(Normalized, df[i].titre)) = 2
    /\ df_2020s = <<>>

====
